---- MODULE Spec2Model ----
(***************************************************************************)
(* Model of the URL shortener of src/server/server.js: the three request   *)
(* handlers (POST /url, POST /url/:longUrl, GET /url/:shortUrl), the       *)
(* DynamoDB table they write, the DAX item cache in front of it, the       *)
(* detached access_count update, the table's TTL expiration and the clock. *)
(*                                                                         *)
(* Every await of a handler is one step: the step is the moment the call   *)
(* takes effect at the store or the cache, together with the synchronous   *)
(* continuation of the handler up to its next await or its response.       *)
(***************************************************************************)
EXTENDS Integers, Sequences, FiniteSets, TLC

\* ------------------------------------------------------------------ bounds
\* number of requests of one behaviour
MaxReq == 3
\* number of requests in flight at one time (handler contexts)
MaxConc == 2
\* number of steps of the clock in one behaviour
MaxTicks == 1
\* number of one-second steps of the clock in one behaviour; they are taken
\* while its last requests are in flight (no request starts after them)
MaxLag == 1

\* --------------------------------------------------------------- constants
TTL_DAYS == 365
SHORT_URL_LENGTH == 16
\* Math.floor(Date.now() / 1000) at the start of a behaviour
StartSeconds == 1762073450

\* ------------------------------------------------------------------ values
\* JavaScript's undefined, as it prints (String(undefined))
Undefined == "undefined"

\* JSON values of req.body.longUrl
JsString(s) == [type |-> "string", str |-> s]
JsNumber(n) == [type |-> "number", num |-> n]
JsUndefined == [type |-> "undefined"]

\* (faulty variant: only the empty string is refused, as by longUrl === "")
FalsyEmptyOnly(v) == v.type = "string" /\ v.str = ""
\* (faulty variant: a string that is not a URL is refused as well, as by the
\* new URL(longUrl) of the form)
FalsyOrNotUrl(v) ==
    \/ v.type = "undefined"
    \/ v.type = "string" /\ v.str \notin {"https://example.com/very/long/url",
                                          "https://example.com/b"}
    \/ v.type = "number" /\ v.num = 0
\* !v of JavaScript, for the values above
Falsy(v) ==
    \/ v.type = "undefined"
    \/ v.type = "string" /\ v.str = ""
    \/ v.type = "number" /\ v.num = 0

\* The long URLs of the model.  UrlA is the spec's example.  UrlB and UrlC
\* stand for two distinct strings whose SHA-256 digests agree on their first
\* 16 hex digits (such pairs exist: there are more strings than 64-bit
\* prefixes); their digests below are representatives, not computed hashes.
\* UrlC is a string that is not a URL (new URL(UrlC) throws).
UrlA == "https://example.com/very/long/url"
UrlB == "https://example.com/b"
UrlC == "not a url"
Urls == {UrlA, UrlB, UrlC}

\* crypto.createHash('sha256').update(s).digest('hex'): 64 hex digits
Sha256Hex(s) ==
    CASE s = UrlA ->
           << "8","e","c","5","9","6","c","4","4","b","d","6","2","b","6","b",
              "2","1","8","f","c","4","5","b","e","d","7","2","f","d","6","a",
              "1","b","d","b","7","3","2","d","b","2","f","1","9","b","7","b",
              "8","4","0","b","d","4","d","d","e","5","e","3","5","0","6","1" >>
      [] s = UrlB ->
           << "5","1","a","0","3","c","7","7","e","2","9","d","4","f","0","b",
              "9","3","0","c","1","1","a","e","6","6","2","4","d","8","b","7",
              "0","f","e","1","4","a","c","3","2","9","7","5","b","b","6","0",
              "c","d","8","8","1","2","e","4","a","7","3","3","9","f","0","5" >>
      [] s = UrlC ->
           << "5","1","a","0","3","c","7","7","e","2","9","d","4","f","0","b",
              "d","4","4","1","7","e","0","2","b","a","9","5","3","c","6","6",
              "7","1","0","a","e","e","2","8","4","b","d","0","1","9","f","3",
              "2","c","5","a","b","7","6","0","8","8","e","1","d","4","3","a" >>

\* String.prototype.substring(0, n)
Substring0(s, n) == SubSeq(s, 1, IF n < Len(s) THEN n ELSE Len(s))

\* (faulty variant: the last characters of the digest, as by
\* hash.substring(hash.length - SHORT_URL_LENGTH))
JsonShortUrlTail(longUrl) ==
    SubSeq(Sha256Hex(longUrl), 64 - SHORT_URL_LENGTH + 1, 64)
\* POST /url: hash.substring(0, SHORT_URL_LENGTH)
JsonShortUrl(longUrl) == Substring0(Sha256Hex(longUrl), SHORT_URL_LENGTH)

\* (faulty variant: the 30 characters of the README's version of the handler)
LegacyShortUrlLen30(longUrl) == Substring0(Sha256Hex(longUrl), 30)
\* POST /url/:longUrl: hash.substring(0, SHORT_URL_LENGTH)
LegacyShortUrl(longUrl) == Substring0(Sha256Hex(longUrl), SHORT_URL_LENGTH)

\* a short code that is the prefix of no digest of the model
ZeroCode ==
    << "0","0","0","0","0","0","0","0","0","0","0","0","0","0","0","0" >>

\* the :shortUrl parameters of the model's GET requests
Codes == {JsonShortUrl(u) : u \in Urls} \cup {ZeroCode}

\* the longUrl fields of the model's POST /url bodies
JsonInputs ==
    {JsString(u) : u \in Urls} \cup {JsString(""), JsUndefined, JsNumber(42)}

\* req.params.longUrl of the model's POST /url/:longUrl requests
EscapedB == "https://example.com/%62"
MalformedParam == "https://example.com/100%"
LegacyParams == {UrlB, UrlC, EscapedB, MalformedParam}

\* decodeURIComponent throws URIError on a malformed escape
DecodeThrows(p) == p = MalformedParam

\* decodeURIComponent(p) where it returns: %62 is "b", a string without an
\* escape is returned as it is
DecodeURIComponent(p) == IF p = EscapedB THEN UrlB ELSE p

\* TTL_DAYS * 24 * 60 * 60
TtlSeconds == TTL_DAYS * 24 * 60 * 60

\* the step of the model's clock, in seconds: half the TTL
TickSeconds == TtlSeconds \div 2

VARIABLES
    store,      \* the table URLShortenerMappings: short_url -> item
    cache,      \* the DAX item cache: short_url -> item
    pending,    \* the detached access_count updates in flight: key -> number
    now,        \* Math.floor(Date.now() / 1000)
    started,    \* how many requests have started
    req,        \* the requests in flight, a bag: position and locals -> number
    last,       \* the response sent by the latest step (none: NoResponse)
    written,    \* history: the <<short_url, long_url>> that a put inserted
    okCreates   \* history: the bodies of the 200 and 201 create responses

vars == << store, cache, pending, now, started, req, last, written,
           okCreates >>

\* ---------------------------------------------------------------- requests
NoBody == [none |-> TRUE]

\* a request that starts: at (when it arrived), prev (the successful create
\* responses sent before it arrived, for its long URL or its short code),
\* queries and puts (the dynamodb.query and dynamodb.put calls it has issued)
\* are history, not locals of the handler
NewReq ==
    [ kind |-> "none", pc |-> "start", longUrl |-> "", shortUrl |-> << >>,
      ttl |-> 0, createdAt |-> 0, at |-> now, prev |-> {},
      queries |-> 0, puts |-> 0 ]

\* no response was sent
NoResponse ==
    [ kind |-> "none", input |-> NoBody, longUrl |-> "", shortUrl |-> << >>,
      at |-> 0, prev |-> {}, queries |-> 0, puts |-> 0, status |-> 0,
      body |-> NoBody, error |-> "none" ]

\* b with one more, one less of e
BagPlus(b, e) ==
    [k \in DOMAIN b \cup {e} |->
        IF k = e THEN (IF e \in DOMAIN b THEN b[e] + 1 ELSE 1) ELSE b[k]]
BagMinus(b, e) ==
    IF b[e] = 1 THEN [k \in DOMAIN b \ {e} |-> b[k]]
    ELSE [b EXCEPT ![e] = @ - 1]

\* the number of elements of b
RECURSIVE BagSize(_)
BagSize(b) ==
    IF DOMAIN b = {} THEN 0
    ELSE LET e == CHOOSE k \in DOMAIN b : TRUE
         IN b[e] + BagSize([k \in DOMAIN b \ {e} |-> b[k]])

\* the one-second steps that the clock has taken
Lag == (now - StartSeconds) % TickSeconds

\* a request may start: a handler context is free
CanStart ==
    /\ started < MaxReq
    /\ BagSize(req) < MaxConc
    /\ Lag = 0

\* res.status(code).json(body) / res.redirect of the request in context q:
\* the response, with what it answers (error is what console.error logs)
Response(q, code, body, error) ==
    [ kind |-> q.kind, input |-> NoBody, longUrl |-> q.longUrl,
      shortUrl |-> q.shortUrl, at |-> q.at, prev |-> q.prev,
      queries |-> q.queries, puts |-> q.puts,
      status |-> code, body |-> body, error |-> error ]

\* the response to a request that is answered before its first await
Rejected(kind, input, code, body, error) ==
    [ kind |-> kind, input |-> input, longUrl |-> "", shortUrl |-> << >>,
      at |-> now, prev |-> {}, queries |-> 0, puts |-> 0, status |-> code,
      body |-> body, error |-> error ]

\* ------------------------------------------------------------------- store
Has(table, key) == key \in DOMAIN table

\* item[a], undefined when the item has no attribute a
Attr(item, a) == IF a \in DOMAIN item THEN item[a] ELSE Undefined

\* table with key bound to item
WithItem(table, key, item) ==
    [k \in DOMAIN table \cup {key} |-> IF k = key THEN item ELSE table[k]]

\* table without key
WithoutItem(table, key) == [k \in DOMAIN table \ {key} |-> table[k]]

\* (faulty variant: the key condition names the table's key, not long_url)
StoreQueryOnKey(table, url) ==
    {table[k] : k \in {j \in DOMAIN table : Attr(table[j], "short_url") = url}}
\* (faulty variant: a scan, the key condition is missing)
StoreScan(table, url) == {table[k] : k \in DOMAIN table}
\* dynamodb.query on LongURLIndex: the items whose long_url is url (the index
\* is read as up to date with the table)
StoreQuery(table, url) ==
    {table[k] : k \in {j \in DOMAIN table : Attr(table[j], "long_url") = url}}

\* (faulty variant: a put without ConditionExpression)
PutConditionNone(table, key) == TRUE
\* ConditionExpression 'attribute_not_exists(short_url)' of dynamodb.put
PutCondition(table, key) == ~ Has(table, key)

\* (faulty variant: the item is put with access_count 1)
NewItemCounted(shortUrl, longUrl, ttl, createdAt) ==
    [ short_url |-> shortUrl, long_url |-> longUrl, ttl |-> ttl,
      created_at |-> createdAt, access_count |-> 1 ]
\* the Item of dynamodb.put
NewItem(shortUrl, longUrl, ttl, createdAt) ==
    [ short_url |-> shortUrl, long_url |-> longUrl, ttl |-> ttl,
      created_at |-> createdAt, access_count |-> 0 ]

\* (faulty variant: the update also renews the ttl of the item, as by
\* 'ADD access_count :inc, ttl :days')
StoreAddAccessCountTouch(table, key) ==
    IF Has(table, key)
    THEN WithItem(table, key,
             [a \in DOMAIN table[key] \cup {"access_count", "ttl"} |->
                 IF a = "access_count"
                 THEN (IF a \in DOMAIN table[key]
                       THEN table[key][a] + 1 ELSE 1)
                 ELSE IF a = "ttl"
                 THEN (IF a \in DOMAIN table[key]
                       THEN table[key][a] + 86400 ELSE 86400)
                 ELSE table[key][a]])
    ELSE WithItem(table, key,
             [short_url |-> key, access_count |-> 1, ttl |-> 86400])
\* dynamodb.update with 'ADD access_count :inc' and no condition: UpdateItem
\* adds the number to the attribute, and creates the item (its key and
\* access_count only) when the table has no item with the key
StoreAddAccessCount(table, key) ==
    IF Has(table, key)
    THEN WithItem(table, key,
             [a \in DOMAIN table[key] \cup {"access_count"} |->
                 IF a = "access_count"
                 THEN (IF "access_count" \in DOMAIN table[key]
                       THEN table[key][a] + 1 ELSE 1)
                 ELSE table[key][a]])
    ELSE WithItem(table, key, [short_url |-> key, access_count |-> 1])

\* (faulty variant: the get goes to the table, as a get of dynamodb would)
DaxGetStoreOnly(c, table, key) ==
    IF Has(table, key) THEN {table[key]} ELSE {}
\* daxClient.get: the item of the cache, else (read-through) of the table
DaxGet(c, table, key) ==
    IF Has(c, key) THEN {c[key]}
    ELSE IF Has(table, key) THEN {table[key]} ELSE {}

\* the cache after daxClient.get: a miss that found an item keeps it
DaxFill(c, table, key) ==
    IF ~ Has(c, key) /\ Has(table, key)
    THEN WithItem(c, key, table[key]) ELSE c

\* The table and the cache outlive the server process: when the server starts
\* the table is empty, or holds a record that an earlier run of the server
\* created for UrlB a second more than one clock step ago, which the cache
\* may hold as well.
EarlierSeconds == StartSeconds - TickSeconds - 1

EarlierItem ==
    NewItem(JsonShortUrl(UrlB), UrlB, EarlierSeconds + TtlSeconds,
            EarlierSeconds)

EarlierTable == WithItem(<< >>, EarlierItem.short_url, EarlierItem)

Init ==
    /\ store \in {<< >>, EarlierTable}
    /\ cache \in {<< >>, store}
    /\ pending = << >>
    /\ now = StartSeconds
    /\ started = 0
    /\ req = << >>
    /\ last = NoResponse
    /\ written = {<< store[k].short_url, store[k].long_url >> : k \in DOMAIN store}
    /\ okCreates = {[shortUrl |-> store[k].short_url,
                     longUrl |-> store[k].long_url,
                     ttl |-> store[k].ttl] : k \in DOMAIN store}

\* the handler of request q answers and is over
Answer(q, code, body, error) ==
    /\ last' = Response(q, code, body, error)
    /\ req' = BagMinus(req, q)

\* the handler of request q goes on as q2
Goes(q, q2) == req' = BagPlus(BagMinus(req, q), q2)

\* the handler answers before its first await: no context is taken
Reject(kind, input, code, body, error) ==
    /\ last' = Rejected(kind, input, code, body, error)
    /\ UNCHANGED req

\* the step sends no response
Silent == last' = NoResponse

InternalError == [error |-> "Internal server error"]

\* ------------------------------------------------------- POST /url (JSON)
\* (faulty variant: the 200 body carries the ttl this request computed)
JsonFoundBodyFreshTtl(q, item) ==
    [shortUrl |-> item.short_url, longUrl |-> q.longUrl, ttl |-> q.ttl]
\* lines 68-72: the body of the 200 response
JsonFoundBody(q, item) ==
    [shortUrl |-> item.short_url, longUrl |-> q.longUrl, ttl |-> item.ttl]

\* lines 88-92: the body of the 201 response
JsonCreatedBody(q) ==
    [shortUrl |-> q.shortUrl, longUrl |-> q.longUrl, ttl |-> q.ttl]

\* lines 44-54: validation, hash, ttl; the dedup query is then in flight
JsonStart(v) ==
    /\ CanStart
    /\ started' = started + 1
    /\ IF Falsy(v)
       THEN Reject("post_url", v, 400, [error |-> "longUrl is required"],
                   "none")
       ELSE IF v.type # "string"
       THEN \* hash.update(longUrl) throws TypeError, caught at line 93
            Reject("post_url", v, 500, InternalError, "TypeError")
       ELSE /\ req' = BagPlus(req,
                    [NewReq EXCEPT
                        !.kind = "post_url", !.pc = "query",
                        !.longUrl = v.str,
                        !.shortUrl = JsonShortUrl(v.str),
                        !.ttl = now + TtlSeconds,
                        !.queries = 1,
                        !.prev = {b \in okCreates : b.longUrl = v.str}])
            /\ Silent
    /\ UNCHANGED << store, cache, pending, now, written, okCreates >>

\* (faulty variant: the 200 is sent without return, the handler goes on to
\* the put)
JsonQueryNoReturn(q) ==
    /\ q \in DOMAIN req
    /\ q.kind = "post_url"
    /\ q.pc = "query"
    /\ LET items == StoreQuery(store, q.longUrl)
       IN /\ Goes(q, [q EXCEPT !.pc = "put", !.createdAt = now,
                                !.puts = @ + 1])
          /\ IF items # {}
             THEN \E item \in items :
                    LET body == JsonFoundBody(q, item)
                    IN /\ last' = Response(q, 200, body, "none")
                       /\ okCreates' = okCreates \cup {body}
             ELSE /\ Silent
                  /\ UNCHANGED okCreates
    /\ UNCHANGED << store, cache, pending, now, started, written >>
\* lines 57-73, and the created_at of line 82: the query takes effect; on a
\* hit the handler answers 200 with the item found, otherwise the put is in
\* flight
JsonQuery(q) ==
    /\ q \in DOMAIN req
    /\ q.kind = "post_url"
    /\ q.pc = "query"
    /\ LET items == StoreQuery(store, q.longUrl)
       IN IF items # {}
          THEN \E item \in items :
                 LET body == JsonFoundBody(q, item)
                 IN /\ Answer(q, 200, body, "none")
                    /\ okCreates' = okCreates \cup {body}
          ELSE /\ Goes(q, [q EXCEPT !.pc = "put", !.createdAt = now,
                                     !.puts = @ + 1])
               /\ Silent
               /\ UNCHANGED okCreates
    /\ UNCHANGED << store, cache, pending, now, started, written >>

\* (faulty variant: the put is not awaited, its rejection is not seen and
\* the 201 is sent all the same)
JsonPutNotAwaited(q) ==
    /\ q \in DOMAIN req
    /\ q.kind = "post_url"
    /\ q.pc = "put"
    /\ LET body == JsonCreatedBody(q)
       IN /\ Answer(q, 201, body, "none")
          /\ okCreates' = okCreates \cup {body}
          /\ IF PutCondition(store, q.shortUrl)
             THEN /\ store' = WithItem(store, q.shortUrl,
                                  NewItem(q.shortUrl, q.longUrl,
                                          q.ttl, q.createdAt))
                  /\ written' = written
                                  \cup {<< q.shortUrl, q.longUrl >>}
             ELSE UNCHANGED << store, written >>
    /\ UNCHANGED << cache, pending, now, started >>
\* lines 76-92: the conditional put takes effect; 201 when it was accepted,
\* ConditionalCheckFailedException (caught at line 93, 500) when rejected
JsonPut(q) ==
    /\ q \in DOMAIN req
    /\ q.kind = "post_url"
    /\ q.pc = "put"
    /\ IF PutCondition(store, q.shortUrl)
       THEN LET body == JsonCreatedBody(q)
            IN /\ store' = WithItem(store, q.shortUrl,
                               NewItem(q.shortUrl, q.longUrl,
                                       q.ttl, q.createdAt))
               /\ written' = written
                               \cup {<< q.shortUrl, q.longUrl >>}
               /\ Answer(q, 201, body, "none")
               /\ okCreates' = okCreates \cup {body}
       ELSE /\ Answer(q, 500, InternalError,
                      "ConditionalCheckFailedException")
            /\ UNCHANGED << store, written, okCreates >>
    /\ UNCHANGED << cache, pending, now, started >>

\* (faulty variant: the put that is answered as failed has written its item)
JsonStoreFailApplied(q) ==
    /\ q \in DOMAIN req
    /\ q.kind = "post_url"
    /\ q.pc \in {"query", "put"}
    /\ Answer(q, 500, InternalError, "StoreUnavailable")
    /\ store' = IF q.pc = "put"
                THEN WithItem(store, q.shortUrl,
                         NewItem(q.shortUrl, q.longUrl, q.ttl, q.createdAt))
                ELSE store
    /\ UNCHANGED << cache, pending, now, started, written, okCreates >>
\* (faulty variant: the handler issues the failed call again)
JsonStoreFailRetry(q) ==
    /\ q \in DOMAIN req
    /\ q.kind = "post_url"
    /\ q.pc \in {"query", "put"}
    /\ q.queries + q.puts < 4
    /\ Goes(q, IF q.pc = "query" THEN [q EXCEPT !.queries = @ + 1]
                                 ELSE [q EXCEPT !.puts = @ + 1])
    /\ Silent
    /\ UNCHANGED << store, cache, pending, now, started, written,
                    okCreates >>
\* lines 93-96: the query or the put fails (store unreachable, timeout)
JsonStoreFail(q) ==
    /\ q \in DOMAIN req
    /\ q.kind = "post_url"
    /\ q.pc \in {"query", "put"}
    /\ Answer(q, 500, InternalError, "StoreUnavailable")
    /\ UNCHANGED << store, cache, pending, now, started, written,
                    okCreates >>

\* ------------------------------------------- POST /url/:longUrl (legacy)
\* (faulty variant: the 200 body carries the ttl this request computed)
LegacyFoundBodyFreshTtl(q, item) ==
    [shortUrl |-> item.short_url, longUrl |-> q.longUrl, ttl |-> q.ttl]
\* lines 122-126: the body of the 200 response
LegacyFoundBody(q, item) ==
    [shortUrl |-> item.short_url, longUrl |-> q.longUrl, ttl |-> item.ttl]

\* (faulty variant: the 201 body of the legacy endpoint carries no ttl)
LegacyCreatedBodyNoTtl(q) ==
    [shortUrl |-> q.shortUrl, longUrl |-> q.longUrl]
\* lines 142-146: the body of the 201 response
LegacyCreatedBody(q) ==
    [shortUrl |-> q.shortUrl, longUrl |-> q.longUrl, ttl |-> q.ttl]

\* lines 102-108: decode, hash, ttl; the dedup query is then in flight
LegacyStart(p) ==
    /\ CanStart
    /\ started' = started + 1
    /\ IF DecodeThrows(p)
       THEN \* URIError, caught at line 147
            Reject("post_url_param", JsString(p), 500, InternalError,
                   "URIError")
       ELSE LET longUrl == DecodeURIComponent(p)
            IN /\ req' = BagPlus(req,
                    [NewReq EXCEPT
                        !.kind = "post_url_param", !.pc = "query",
                        !.longUrl = longUrl,
                        !.shortUrl = LegacyShortUrl(longUrl),
                        !.ttl = now + TtlSeconds,
                        !.queries = 1,
                        !.prev = {b \in okCreates : b.longUrl = longUrl}])
               /\ Silent
    /\ UNCHANGED << store, cache, pending, now, written, okCreates >>

\* lines 111-127, and the created_at of line 136
LegacyQuery(q) ==
    /\ q \in DOMAIN req
    /\ q.kind = "post_url_param"
    /\ q.pc = "query"
    /\ LET items == StoreQuery(store, q.longUrl)
       IN IF items # {}
          THEN \E item \in items :
                 LET body == LegacyFoundBody(q, item)
                 IN /\ Answer(q, 200, body, "none")
                    /\ okCreates' = okCreates \cup {body}
          ELSE /\ Goes(q, [q EXCEPT !.pc = "put", !.createdAt = now,
                                     !.puts = @ + 1])
               /\ Silent
               /\ UNCHANGED okCreates
    /\ UNCHANGED << store, cache, pending, now, started, written >>

\* (faulty variant: the rejection of the put is caught and logged, and no
\* response is sent)
LegacyPutSwallowsRejection(q) ==
    /\ q \in DOMAIN req
    /\ q.kind = "post_url_param"
    /\ q.pc = "put"
    /\ IF PutCondition(store, q.shortUrl)
       THEN LET body == LegacyCreatedBody(q)
            IN /\ store' = WithItem(store, q.shortUrl,
                               NewItem(q.shortUrl, q.longUrl,
                                       q.ttl, q.createdAt))
               /\ written' = written
                               \cup {<< q.shortUrl, q.longUrl >>}
               /\ Answer(q, 201, body, "none")
               /\ okCreates' = okCreates \cup {body}
       ELSE /\ Goes(q, [q EXCEPT !.pc = "logged"])
            /\ Silent
            /\ UNCHANGED << store, written, okCreates >>
    /\ UNCHANGED << cache, pending, now, started >>
\* lines 130-146
LegacyPut(q) ==
    /\ q \in DOMAIN req
    /\ q.kind = "post_url_param"
    /\ q.pc = "put"
    /\ IF PutCondition(store, q.shortUrl)
       THEN LET body == LegacyCreatedBody(q)
            IN /\ store' = WithItem(store, q.shortUrl,
                               NewItem(q.shortUrl, q.longUrl,
                                       q.ttl, q.createdAt))
               /\ written' = written
                               \cup {<< q.shortUrl, q.longUrl >>}
               /\ Answer(q, 201, body, "none")
               /\ okCreates' = okCreates \cup {body}
       ELSE /\ Answer(q, 500, InternalError,
                      "ConditionalCheckFailedException")
            /\ UNCHANGED << store, written, okCreates >>
    /\ UNCHANGED << cache, pending, now, started >>

\* (faulty variant: the catch deletes the item of the request's key)
LegacyStoreFailCleanup(q) ==
    /\ q \in DOMAIN req
    /\ q.kind = "post_url_param"
    /\ q.pc \in {"query", "put"}
    /\ Answer(q, 500, InternalError, "StoreUnavailable")
    /\ store' = [k \in DOMAIN store \ {q.shortUrl} |-> store[k]]
    /\ UNCHANGED << cache, pending, now, started, written, okCreates >>
\* lines 147-150
LegacyStoreFail(q) ==
    /\ q \in DOMAIN req
    /\ q.kind = "post_url_param"
    /\ q.pc \in {"query", "put"}
    /\ Answer(q, 500, InternalError, "StoreUnavailable")
    /\ UNCHANGED << store, cache, pending, now, started, written,
                    okCreates >>

\* ---------------------------------------------------- GET /url/:shortUrl
\* (faulty variant: the update is issued before the 404 check)
IssuesUpdateAlways(found) == TRUE
\* lines 166-171: the update is issued only past the return of the 404
IssuesUpdate(found) == found # {}

\* line 156: the get through DAX is then in flight
GetStart(code) ==
    /\ CanStart
    /\ started' = started + 1
    /\ req' = BagPlus(req,
            [NewReq EXCEPT
                !.kind = "get_url", !.pc = "get", !.shortUrl = code,
                !.prev = {b \in okCreates : b.shortUrl = code}])
    /\ Silent
    /\ UNCHANGED << store, cache, pending, now, written, okCreates >>

\* (faulty variant: the update is awaited before the redirect)
GetReadAwaitsUpdate(q) ==
    /\ q \in DOMAIN req
    /\ q.kind = "get_url"
    /\ q.pc = "get"
    /\ LET found == DaxGet(cache, store, q.shortUrl)
       IN /\ cache' = DaxFill(cache, store, q.shortUrl)
          /\ store' = IF found # {}
                       THEN StoreAddAccessCount(store, q.shortUrl) ELSE store
          /\ IF found = {}
             THEN Answer(q, 404, [error |-> "URL not found"], "none")
             ELSE \E item \in found :
                    Answer(q, 301, [Location |-> Attr(item, "long_url")],
                           "none")
    /\ UNCHANGED << pending, now, started, written, okCreates >>
\* lines 159-185: the get takes effect; 404 without an item, otherwise the
\* update is issued (not awaited) and the handler redirects
GetRead(q) ==
    /\ q \in DOMAIN req
    /\ q.kind = "get_url"
    /\ q.pc = "get"
    /\ LET found == DaxGet(cache, store, q.shortUrl)
       IN /\ cache' = DaxFill(cache, store, q.shortUrl)
          /\ pending' = IF IssuesUpdate(found)
                         THEN BagPlus(pending, q.shortUrl) ELSE pending
          /\ IF found = {}
             THEN Answer(q, 404, [error |-> "URL not found"], "none")
             ELSE \E item \in found :
                    Answer(q, 301, [Location |-> Attr(item, "long_url")],
                           "none")
    /\ UNCHANGED << store, now, started, written, okCreates >>

\* (faulty variant: the update is issued before the get is awaited)
GetFailAfterUpdate(q) ==
    /\ q \in DOMAIN req
    /\ q.kind = "get_url"
    /\ q.pc = "get"
    /\ pending' = BagPlus(pending, q.shortUrl)
    /\ Answer(q, 500, InternalError, "StoreUnavailable")
    /\ UNCHANGED << store, cache, now, started, written, okCreates >>
\* lines 186-189: the get fails (cache or store unreachable, timeout)
GetFail(q) ==
    /\ q \in DOMAIN req
    /\ q.kind = "get_url"
    /\ q.pc = "get"
    /\ Answer(q, 500, InternalError, "StoreUnavailable")
    /\ UNCHANGED << store, cache, pending, now, started, written,
                    okCreates >>

\* (faulty variant: the update goes through the cache, which writes it
\* through to the table and keeps the item)
IncApplyThroughDax(key) ==
    /\ Has(pending, key)
    /\ pending' = BagMinus(pending, key)
    /\ store' = StoreAddAccessCount(store, key)
    /\ cache' = WithItem(cache, key, StoreAddAccessCount(store, key)[key])
    /\ Silent
    /\ UNCHANGED << now, started, req, written, okCreates >>
\* lines 171-179: a pending update takes effect at the table
IncApply(key) ==
    /\ Has(pending, key)
    /\ pending' = BagMinus(pending, key)
    /\ store' = StoreAddAccessCount(store, key)
    /\ Silent
    /\ UNCHANGED << cache, now, started, req, written, okCreates >>

\* (faulty variant: the failure of the update is answered to the caller)
IncFailPropagated(key) ==
    /\ Has(pending, key)
    /\ pending' = BagMinus(pending, key)
    /\ last' = Rejected("get_url", NoBody, 500, InternalError,
                        "StoreUnavailable")
    /\ UNCHANGED << store, cache, now, started, req, written,
                    okCreates >>
\* lines 180-182: a pending update fails; the error is logged
IncFail(key) ==
    /\ Has(pending, key)
    /\ pending' = BagMinus(pending, key)
    /\ Silent
    /\ UNCHANGED << store, cache, now, started, req, written,
                    okCreates >>

\* ------------------------------------------------------------ environment
\* the clock advances by TickSeconds.  The calls of a handler and the
\* detached update have timeouts of seconds, and the cache keeps an item for
\* minutes (the parameter group of the README sets no other item TTL): no
\* request and no update is in flight that long, and no item stays cached.
Tick ==
    /\ req = << >>
    /\ pending = << >>
    /\ now < StartSeconds + MaxTicks * TickSeconds
    /\ now' = now + TickSeconds
    /\ cache' = << >>
    /\ Silent
    /\ UNCHANGED << store, pending, started, req, written, okCreates >>

\* the clock advances by a second while the dedup query of a create is in
\* flight: between the clock reads of lines 54 and 82 (108 and 136).  A
\* second that passes at another moment only shifts the values read; the
\* model takes the step while that create is the one call in flight.
Tock ==
    /\ \E q \in DOMAIN req : q.pc = "query"
    /\ BagSize(req) = 1
    /\ pending = << >>
    /\ Lag < MaxLag
    /\ now' = now + 1
    /\ Silent
    /\ UNCHANGED << store, cache, pending, started, req, written,
                    okCreates >>

\* the table's TTL on attribute ttl: an item whose ttl has been reached is
\* deleted, at some time after that
Expire(key) ==
    /\ Has(store, key)
    /\ "ttl" \in DOMAIN store[key]
    /\ store[key].ttl <= now
    /\ store' = WithoutItem(store, key)
    /\ Silent
    /\ UNCHANGED << cache, pending, now, started, req, written,
                    okCreates >>

\* the cache drops an item (its own item TTL, or eviction)
CacheEvict(key) ==
    /\ Has(cache, key)
    /\ cache' = WithoutItem(cache, key)
    /\ Silent
    /\ UNCHANGED << store, pending, now, started, req, written,
                    okCreates >>

\* the keys a table of the model can hold
Keys == Codes \cup {LegacyShortUrlLen30(u) : u \in Urls}

Next ==
    \/ \E v \in JsonInputs : JsonStart(v)
    \/ \E q \in DOMAIN req : JsonQuery(q)
    \/ \E q \in DOMAIN req : JsonPut(q)
    \/ \E q \in DOMAIN req : JsonStoreFail(q)
    \/ \E p \in LegacyParams : LegacyStart(p)
    \/ \E q \in DOMAIN req : LegacyQuery(q)
    \/ \E q \in DOMAIN req : LegacyPut(q)
    \/ \E q \in DOMAIN req : LegacyStoreFail(q)
    \/ \E c \in Codes : GetStart(c)
    \/ \E q \in DOMAIN req : GetRead(q)
    \/ \E q \in DOMAIN req : GetFail(q)
    \/ \E k \in Keys : IncApply(k)
    \/ \E k \in Keys : IncFail(k)
    \/ Tick
    \/ Tock
    \/ \E k \in Keys : Expire(k)
    \/ \E k \in Keys : CacheEvict(k)

Spec == Init /\ [][Next]_vars

\* every call that a handler awaits returns or fails (the promise settles)
CallEnds ==
    \E q \in DOMAIN req :
        \/ JsonQuery(q) \/ JsonPut(q) \/ JsonStoreFail(q)
        \/ LegacyQuery(q) \/ LegacyPut(q) \/ LegacyStoreFail(q)
        \/ GetRead(q) \/ GetFail(q)

FairSpec == Spec /\ WF_vars(CallEnds)

\* ------------------------------------------------ two concurrent creates
\* a create of long URL s on endpoint kind whose dedup query is in flight
\* (lines 44-57, 102-111)
StartedCreate(kind, s) ==
    [NewReq EXCEPT
        !.kind = kind, !.pc = "query", !.longUrl = s,
        !.shortUrl = IF kind = "post_url" THEN JsonShortUrl(s)
                     ELSE LegacyShortUrl(s),
        !.ttl = now + TtlSeconds, !.queries = 1,
        !.prev = {b \in okCreates : b.longUrl = s}]

\* the creates of two long URLs whose codes differ are in flight, on either
\* endpoint each, over a table that is empty or holds the earlier record
InitCommute ==
    /\ store \in {<< >>, EarlierTable}
    /\ cache \in {<< >>, store}
    /\ pending = << >>
    /\ now = StartSeconds
    /\ started = 2
    /\ last = NoResponse
    /\ written = {<< store[k].short_url, store[k].long_url >> :
                     k \in DOMAIN store}
    /\ okCreates = {[shortUrl |-> store[k].short_url,
                     longUrl |-> store[k].long_url,
                     ttl |-> store[k].ttl] : k \in DOMAIN store}
    /\ \E s1, s2 \in Urls :
         \E k1, k2 \in {"post_url", "post_url_param"} :
           /\ s1 # s2
           /\ JsonShortUrl(s1) # JsonShortUrl(s2)
           /\ req = BagPlus(BagPlus(<< >>, StartedCreate(k1, s1)),
                            StartedCreate(k2, s2))

\* the calls of the two creates take effect in any order
NextCommute ==
    \/ \E q \in DOMAIN req : JsonQuery(q)
    \/ \E q \in DOMAIN req : JsonPut(q)
    \/ \E q \in DOMAIN req : LegacyQuery(q)
    \/ \E q \in DOMAIN req : LegacyPut(q)

SpecCommute == InitCommute /\ [][NextCommute]_vars

\* =================================================================== claims
IsCreate(x) == x.kind \in {"post_url", "post_url_param"}
IsResolve(x) == x.kind = "get_url"
Success(x) == x.status \in {200, 201}

\* the keys of the records of the table whose long_url is s
KeysFor(s) == {k \in DOMAIN store : Attr(store[k], "long_url") = s}

\* last answers a create that got past validation and decoding
AnswersCreate == IsCreate(last) /\ last.longUrl # ""

\* C1: in every reachable state the table holds at most one record whose
\* long_url is any given string.
C1_AtMostOneRecordPerLongUrl ==
    \A s \in Urls : Cardinality(KeysFor(s)) <= 1

\* the case of C1: a create whose dedup query found nothing is rejected by
\* the conditional put because a concurrent create of the same long URL
\* inserted the record first
C1_Witness ==
    /\ AnswersCreate
    /\ last.error = "ConditionalCheckFailedException"
    /\ KeysFor(last.longUrl) # {}

\* C2 (as claimed): every create of s that is answered while the table holds
\* the record of s, and whose store calls did not fail, is answered with a
\* success that carries the short code of that record; so all of N concurrent
\* creates of s receive the same short code.
C2_AllCallersSameShortCode ==
    (AnswersCreate /\ last.error # "StoreUnavailable"
        /\ KeysFor(last.longUrl) # {})
    => /\ Success(last)
       /\ \A k \in KeysFor(last.longUrl) : last.body.shortUrl = k

\* C3 (as claimed): a create whose conditional put is rejected because the
\* record of its long URL was inserted after its dedup query does not answer
\* with an error: it answers with the winning record.
C3_LostRaceNotSurfaced ==
    \A k \in KeysFor(last.longUrl) :
        (AnswersCreate /\ last.prev = {} /\ last.shortUrl = k
            /\ last.error # "StoreUnavailable")
        => /\ last.status # 500
           /\ last.body = [shortUrl |-> k, longUrl |-> last.longUrl,
                           ttl |-> store[k].ttl]

\* C4: a create of s that starts after a create of s was answered with
\* success answers, while the record has not expired and the store calls do
\* not fail, with success and the same short code, and the table then holds
\* exactly one record of s.
C4_IdempotentCreation ==
    \A b \in last.prev :
        (AnswersCreate /\ last.error # "StoreUnavailable" /\ now < b.ttl)
        => /\ Success(last)
           /\ last.body.shortUrl = b.shortUrl
           /\ Cardinality(KeysFor(last.longUrl)) = 1

\* the case of C4: the second of two creates in sequence has been answered
C4_Witness ==
    /\ AnswersCreate
    /\ \E b \in last.prev : now < b.ttl
    /\ Success(last)

\* C5 (as claimed): a resolve of c that is issued after create(s) answered
\* with short code c, and is answered before that record expires, redirects
\* to s.
C5_RoundTrip ==
    \A b \in last.prev :
        (IsResolve(last) /\ last.error = "none" /\ now < b.ttl)
        => /\ last.status = 301
           /\ last.body.Location = b.longUrl

\* C6 (as claimed): a resolve of c is answered with a redirect only if some
\* record created for c had not reached its expiresAt when the resolve was
\* issued.
C6_ExpiredNotResolved ==
    (IsResolve(last) /\ last.status = 301)
    => \E b \in okCreates : b.shortUrl = last.shortUrl /\ last.at <= b.ttl

\* C7: a resolve of a code that no create has written is never answered with
\* a redirect, and is answered 404 "URL not found" whenever its read returns.
C7_MissIsNotFound ==
    (IsResolve(last) /\ \A w \in written : w[1] # last.shortUrl)
    => /\ last.status # 301
       /\ last.error = "none"
            => (last.status = 404 /\ last.body = [error |-> "URL not found"])

\* the case of C7: a resolve of a never-written code has been answered
C7_Witness ==
    /\ IsResolve(last)
    /\ \A w \in written : w[1] # last.shortUrl
    /\ last.status = 404

\* the attributes of a record that a create sets
SameRecord(a, b) ==
    \A f \in {"short_url", "long_url", "ttl", "created_at"} :
        Attr(a, f) = Attr(b, f)

\* C8: while a record with short code c exists its long_url (as its ttl and
\* created_at) does not change, and a create of another long URL whose code
\* is c leaves the table as it is and is not answered with success.
C8_NoReuseWhileRecordExists ==
    [][ /\ \A k \in DOMAIN store \cap DOMAIN store' :
              SameRecord(store[k], store'[k])
        /\ (IsCreate(last') /\ last'.longUrl # ""
              /\ Has(store, last'.shortUrl)
              /\ Attr(store[last'.shortUrl], "long_url") # last'.longUrl)
           => (store' = store /\ ~ Success(last'))
      ]_vars

\* the case of C8: a create of a long URL whose code is the key of a record
\* of another long URL has been answered
C8_Witness ==
    /\ AnswersCreate
    /\ Has(store, last.shortUrl)
    /\ Attr(store[last.shortUrl], "long_url") \in Urls \ {last.longUrl}

\* C9 (as claimed): a step that is not the insert of a create adds no record
\* to the table, and changes of a record nothing but its access_count.
C9_OnlyCreateAddsRecords ==
    [][ ~ (IsCreate(last') /\ last'.status = 201)
        => /\ DOMAIN store' \subseteq DOMAIN store
           /\ \A k \in DOMAIN store' : SameRecord(store[k], store'[k])
      ]_vars

\* C10: a create whose dedup query finds a record answers with that record's
\* short code and stored ttl, and leaves the table unchanged.
C10_DedupHitReturnsStored ==
    [][ (IsCreate(last') /\ last'.status = 200)
        => /\ store' = store
           /\ \E k \in KeysFor(last'.longUrl) :
                /\ last'.body.shortUrl = store[k].short_url
                /\ last'.body.ttl = store[k].ttl
      ]_vars

\* the case of C10: a dedup hit whose stored ttl is not the ttl that the
\* request computed
C10_Witness ==
    /\ IsCreate(last)
    /\ last.status = 200
    /\ last.body.ttl # last.at + TtlSeconds

\* the step answers request q of the state before it
Answered(q) ==
    /\ q \in DOMAIN req
    /\ req' = BagMinus(req, q)
    /\ last' = Response(q, last'.status, last'.body, last'.error)

\* the step adds to the table a record of q's long URL under q's short code
Inserted(q) ==
    /\ ~ Has(store, q.shortUrl)
    /\ Has(store', q.shortUrl)
    /\ Attr(store'[q.shortUrl], "long_url") = q.longUrl

\* C11: a POST /url that is answered is answered 201 exactly when the step
\* that answers it inserted its record, and 200 exactly when its dedup query
\* returned a record; both bodies are {shortUrl, longUrl, ttl}; a POST /url
\* whose body has no longUrl is answered 400.
C11_JsonStatusCodes ==
    [][ /\ \A q \in DOMAIN req :
              (q.kind = "post_url" /\ Answered(q))
              => /\ (last'.status = 201) <=> Inserted(q)
                 /\ (last'.status = 200)
                      <=> (q.pc = "query" /\ last'.error = "none"
                             /\ KeysFor(q.longUrl) # {})
                 /\ Success(last')
                      => /\ DOMAIN last'.body = {"shortUrl", "longUrl", "ttl"}
                         /\ last'.body.longUrl = q.longUrl
        /\ (last'.kind = "post_url" /\ last'.input = JsUndefined)
           => last'.status = 400
      ]_vars

\* the case of C11: a POST /url whose dedup query returned the record that
\* an earlier create inserted has been answered 200
C11_Witness ==
    /\ last.kind = "post_url"
    /\ last.status = 200
    /\ last.puts = 0
    /\ \E b \in last.prev : b = last.body

\* C12 (as claimed): a POST /url whose longUrl is absent, the empty string
\* or not a string is answered 400.
C12_MalformedIs400 ==
    (last.kind = "post_url" /\ last.input \in JsonInputs
        /\ (last.input.type # "string" \/ last.input.str = ""))
    => last.status = 400

\* C13: a create whose dedup query or put fails is answered 500, and no
\* create issues its dedup query or its put more than once.
C13_StoreFailureIs500NoRetry ==
    /\ \A q \in DOMAIN req : q.queries <= 1 /\ q.puts <= 1
    /\ last.queries <= 1 /\ last.puts <= 1
    /\ (IsCreate(last) /\ last.error = "StoreUnavailable")
       => (last.status = 500 /\ last.body = InternalError)

\* the case of C13: the put of a create failed and the create was answered
C13_Witness ==
    /\ IsCreate(last)
    /\ last.error = "StoreUnavailable"
    /\ last.queries = 1
    /\ last.puts = 1

\* the items that a get of key finds: in the cache, else in the table
Found(key) ==
    IF Has(cache, key) THEN {cache[key]}
    ELSE IF Has(store, key) THEN {store[key]} ELSE {}

\* the step ends an update in flight (it took effect, or it failed)
UpdateEnds ==
    \E k \in DOMAIN pending : ~ Has(pending', k) \/ pending'[k] < pending[k]

\* C14: a resolve whose read found an item is answered 301 in the step that
\* issues its increment, while the increment is in flight; the step in which
\* an increment takes effect or fails sends no response and touches no
\* request: the response is the same whatever becomes of the increment.
C14_IncrementNeverPropagated ==
    [][ /\ \A q \in DOMAIN req :
              (q.kind = "get_url" /\ Answered(q) /\ last'.error = "none"
                 /\ Found(q.shortUrl) # {})
              => /\ last'.status = 301
                 /\ Has(pending', q.shortUrl)
        /\ UpdateEnds => (last' = NoResponse /\ req' = req)
      ]_vars

\* the case of C14: a redirect has been sent and the increment of an earlier
\* resolve of the same code is still in flight with the one of this resolve
C14_Witness ==
    /\ IsResolve(last)
    /\ last.status = 301
    /\ Has(pending, last.shortUrl)
    /\ pending[last.shortUrl] = 2

\* C15: a resolve whose read returns is answered 301 with the long_url of the
\* item of the cache, or of the table when the cache has no item for the
\* code, and 404 "URL not found" when neither has one.
C15_HitRedirectsMissIsNotFound ==
    [][ \A q \in DOMAIN req :
            (q.kind = "get_url" /\ Answered(q) /\ last'.error = "none")
            => IF Found(q.shortUrl) = {}
               THEN /\ last'.status = 404
                    /\ last'.body = [error |-> "URL not found"]
               ELSE /\ last'.status = 301
                    /\ \A item \in Found(q.shortUrl) :
                          last'.body = [Location |-> Attr(item, "long_url")]
      ]_vars

\* the case of C15: a resolve has been answered from the cache for a code
\* of which the table has no record
C15_Witness ==
    /\ IsResolve(last)
    /\ last.status = 301
    /\ last.body.Location \in Urls
    /\ Has(cache, last.shortUrl)
    /\ ~ Has(store, last.shortUrl)

\* C16: a resolve whose read fails is answered 500, and the step issues no
\* increment and leaves the table as it is.
C16_ReadFailureIs500NoIncrement ==
    [][ \A q \in DOMAIN req :
            (q.kind = "get_url" /\ Answered(q)
               /\ last'.error = "StoreUnavailable")
            => /\ last'.status = 500
               /\ last'.body = InternalError
               /\ pending' = pending
               /\ store' = store
      ]_vars

\* the case of C16: the read of a resolve of a stored code failed, and no
\* update is in flight
C16_Witness ==
    /\ IsResolve(last)
    /\ last.error = "StoreUnavailable"
    /\ last.status = 500
    /\ Has(store, last.shortUrl)
    /\ pending = << >>

\* C17: a record that the table holds before and after a step has the same
\* attributes but for access_count, and the same value of each of them.
C17_RecordImmutable ==
    [][ \A k \in DOMAIN store \cap DOMAIN store' :
            \A f \in (DOMAIN store[k] \cup DOMAIN store'[k])
                        \ {"access_count"} :
                /\ f \in DOMAIN store[k] \cap DOMAIN store'[k]
                /\ store'[k][f] = store[k][f]
      ]_vars

\* the case of C17: a create has lost the conditional write against a record
\* that a resolve has counted
C17_Witness ==
    /\ AnswersCreate
    /\ last.error = "ConditionalCheckFailedException"
    /\ Has(store, last.shortUrl)
    /\ Attr(store[last.shortUrl], "long_url") \in Urls
    /\ store[last.shortUrl].access_count > 0

\* C18 (as claimed): the record that a create has just inserted has a ttl
\* that is the second of its creation (created_at) plus 365 days, and the
\* 201 response carries that ttl.
C18_TtlIsCreationPlus365Days ==
    (IsCreate(last) /\ last.status = 201)
    => /\ store[last.shortUrl].ttl
            = store[last.shortUrl].created_at + 31536000
       /\ last.body.ttl = store[last.shortUrl].ttl

\* generate of the spec: the first 16 hex digits of the SHA-256 of s
Generate(s) == SubSeq(Sha256Hex(s), 1, 16)

C21_OnlyExpirationRemoves ==
    [][ \A k \in DOMAIN store \ DOMAIN store' :
            /\ "ttl" \in DOMAIN store[k]
            /\ store[k].ttl <= now
            /\ last' = NoResponse
            /\ req' = req
            /\ pending' = pending
      ]_vars

\* the case of C21: a record that a create inserted has left the table, and
\* a create for its code has been answered with an error since
C21_Witness ==
    /\ AnswersCreate
    /\ last.status = 500
    /\ last.at > StartSeconds
    /\ ~ Has(store, last.shortUrl)
    /\ \E w \in written : w[1] = last.shortUrl

\* C22: in the state in which a redirect has been sent, the increment that
\* the resolve issued is in flight: it has neither taken effect nor failed.
C22_RedirectBeforeIncrement ==
    (IsResolve(last) /\ last.status = 301)
    => Has(pending, last.shortUrl)

\* the case of C22: the one request of the behaviour, a resolve, has been
\* answered, and its increment has taken effect since
C22_Witness ==
    /\ started = 1
    /\ req = << >>
    /\ pending = << >>
    /\ \E k \in DOMAIN store : store[k].access_count = 1

\* C23: the record that a create inserts has access_count 0; the step that
\* answers a resolve with 301 issues one update for the code of the request,
\* and the step that answers it with 404 or 500 issues none; a resolve whose
\* read returns is answered 301 exactly when the read found an item.
C23_OneIncrementPerHit ==
    [][ \A q \in DOMAIN req :
            /\ (IsCreate(q) /\ Inserted(q))
               => store'[q.shortUrl].access_count = 0
            /\ (q.kind = "get_url" /\ Answered(q))
               => /\ last'.status \in {301, 404, 500}
                  /\ last'.status = 301
                       => pending' = BagPlus(pending, q.shortUrl)
                  /\ last'.status # 301 => pending' = pending
                  /\ last'.error = "none"
                       => (last'.status = 301 <=> Found(q.shortUrl) # {})
      ]_vars

\* the case of C23: a resolve of a record that no resolve has counted has
\* been answered with the redirect, its update the only one in flight
C23_Witness ==
    /\ IsResolve(last)
    /\ last.status = 301
    /\ Has(store, last.shortUrl)
    /\ store[last.shortUrl].access_count = 0
    /\ pending = BagPlus(<< >>, last.shortUrl)

\* the step moves request q of the state before it (a call of q returns or
\* fails)
Moved(q) ==
    /\ q \in DOMAIN req
    /\ q \notin DOMAIN req' \/ req'[q] < req[q]

\* C24: a create that starts has issued its dedup query and no put.  The
\* step in which the query returns issues the put exactly when no record of
\* the long URL was returned, and otherwise answers; the step in which the
\* put returns answers.  Each of these steps leaves the cache and the
\* updates in flight as they are, and changes the table by the insert only.
C24_OneQueryThenAtMostOnePut ==
    [][ /\ \A q \in DOMAIN req' \ DOMAIN req :
              (IsCreate(q) /\ q.pc = "query")
              => (q.queries = 1 /\ q.puts = 0)
        /\ \A q \in DOMAIN req :
              (IsCreate(q) /\ Moved(q))
              => /\ cache' = cache
                 /\ pending' = pending
                 /\ store' # store
                      => /\ Inserted(q)
                         /\ \A k \in DOMAIN store :
                               Has(store', k) /\ store'[k] = store[k]
                 /\ IF q.pc = "query"
                    THEN /\ q.queries = 1 /\ q.puts = 0
                         /\ store' = store
                         /\ IF last'.error = "StoreUnavailable"
                            THEN Answered(q)
                            ELSE IF KeysFor(q.longUrl) # {}
                            THEN Answered(q) /\ last'.status = 200
                            ELSE /\ last' = NoResponse
                                 /\ \E q2 \in DOMAIN req' :
                                       /\ q2.pc = "put"
                                       /\ q2.queries = 1 /\ q2.puts = 1
                                       /\ req' = BagPlus(BagMinus(req, q), q2)
                    ELSE /\ q.pc = "put"
                         /\ q.queries = 1 /\ q.puts = 1
                         /\ Answered(q)
      ]_vars

\* the case of C24: a create whose query returned no record of its long URL
\* issued its put, and the put was rejected
C24_Witness ==
    /\ AnswersCreate
    /\ last.error = "ConditionalCheckFailedException"
    /\ last.queries = 1
    /\ last.puts = 1
    /\ KeysFor(last.longUrl) = {}

\* C25: the cache changes only in the step in which the get of a resolve
\* returns (it keeps the item read from the table) and when it drops items
\* by itself; the steps of a create and the steps in which an update takes
\* effect or fails leave it as it is.
C25_CacheOnlyForResolve ==
    [][ /\ cache' # cache
           => \/ \E q \in DOMAIN req :
                   /\ q.kind = "get_url"
                   /\ Answered(q)
                   /\ Has(store, q.shortUrl)
                   /\ cache' = WithItem(cache, q.shortUrl, store[q.shortUrl])
              \/ /\ \A k \in DOMAIN cache' :
                       Has(cache, k) /\ cache'[k] = cache[k]
                 /\ req' = req /\ store' = store /\ pending' = pending
                 /\ last' = NoResponse
        /\ (\E q \in DOMAIN req : IsCreate(q) /\ Moved(q)) => cache' = cache
        /\ IsCreate(last') => cache' = cache
        /\ UpdateEnds => cache' = cache
      ]_vars

\* the case of C25: an update has taken effect at the table and the cache
\* holds the item as it was read
C25_Witness ==
    \E k \in DOMAIN cache :
        /\ Has(store, k)
        /\ store[k].access_count = cache[k].access_count + 1
        /\ IsCreate(last)

\* the (short code, long URL) of the records of the table
Records == {<< k, Attr(store[k], "long_url") >> : k \in DOMAIN store}

\* C26: of two concurrent creates of long URLs whose codes differ, whatever
\* the order in which their calls take effect, each is answered 200 when the
\* table held the record of its long URL before, 500 when it held a record
\* of another long URL under its code, and otherwise 201, with the code of
\* its long URL; when both are answered the records of the table are those
\* it held before and those of the creates answered with success.
C26_DistinctCreatesCommute ==
    /\ AnswersCreate
       => /\ last.status =
               IF last.prev # {} THEN 200
               ELSE IF Has(store, Generate(last.longUrl))
                       /\ Attr(store[Generate(last.longUrl)], "long_url")
                            = last.longUrl
               THEN 201 ELSE 500
          /\ Success(last) => last.body.shortUrl = Generate(last.longUrl)
    /\ req = << >>
       => /\ Records = {<< b.shortUrl, b.longUrl >> : b \in okCreates}
          /\ Records = written

\* the case of C26: both creates have been answered and each inserted its
\* record
C26_Witness ==
    /\ req = << >>
    /\ started = 2
    /\ last.status = 201
    /\ Cardinality(DOMAIN store) = 2
    /\ \A k \in DOMAIN store : store[k].ttl = StartSeconds + TtlSeconds

\* C27: when every awaited call returns or fails, the requests in flight are
\* all answered in the end; a step sends a response exactly when it refuses
\* a request at its start or answers one request in flight, which then is
\* over, and a request in flight is over only when it is answered.
C27_ExactlyOneResponse ==
    /\ [][ /\ (last' # NoResponse)
               <=> \/ started' = started + 1 /\ req' = req
                   \/ \E q \in DOMAIN req : Answered(q)
           /\ (\E q \in DOMAIN req : Moved(q))
              => \/ \E q \in DOMAIN req : Answered(q)
                 \/ /\ last' = NoResponse
                    /\ BagSize(req') = BagSize(req)
         ]_vars
    /\ (req # << >>) ~> (req = << >>)

\* the case of C27: the last request has been answered, after a rejected
\* put, and none is in flight
C27_Witness ==
    /\ started = MaxReq
    /\ req = << >>
    /\ last.error = "ConditionalCheckFailedException"

\* C28: in the state in which a 201 has been sent the request has issued its
\* put, the put has inserted, and the table holds under the shortUrl of the
\* body the record with the longUrl and the ttl of the body and with
\* access_count 0.
C28_CreatedAfterWrite ==
    (IsCreate(last) /\ last.status = 201)
    => /\ last.puts = 1
       /\ << last.body.shortUrl, last.body.longUrl >> \in written
       /\ Has(store, last.body.shortUrl)
       /\ DOMAIN store[last.body.shortUrl]
            = {"short_url", "long_url", "ttl", "created_at", "access_count"}
       /\ store[last.body.shortUrl].short_url = last.body.shortUrl
       /\ store[last.body.shortUrl].long_url = last.body.longUrl
       /\ store[last.body.shortUrl].ttl = last.body.ttl
       /\ store[last.body.shortUrl].access_count = 0

\* the case of C28: a 201 has been sent by POST /url under a code that held
\* the record of another long URL before that record expired
C28_Witness ==
    /\ last.kind = "post_url"
    /\ last.status = 201
    /\ \E w \in written :
          w[1] = last.body.shortUrl /\ w[2] # last.body.longUrl

\* C29: every create that is answered with success is answered with the
\* short code and the ttl of the record of its long URL that the table holds
\* in that state, which is the only record of that long URL.
C29_SuccessCarriesStoredRecord ==
    (AnswersCreate /\ Success(last))
    => /\ Cardinality(KeysFor(last.longUrl)) = 1
       /\ \A k \in KeysFor(last.longUrl) :
             /\ last.body.shortUrl = k
             /\ last.body.ttl = store[k].ttl
             /\ last.body.longUrl = store[k].long_url

\* the case of C29: the legacy endpoint has answered 200 for a record whose
\* ttl is not the one that the request computed
C29_Witness ==
    /\ last.kind = "post_url_param"
    /\ last.status = 200
    /\ last.body.ttl # last.at + TtlSeconds
    /\ last.body \in last.prev

\* C30 (as claimed): every redirect of a resolve of code c has as Location a
\* long URL s such that a create has inserted the record (c, s).
C30_RedirectsToStoredUrl ==
    (IsResolve(last) /\ last.status = 301)
    => << last.shortUrl, last.body.Location >> \in written

\* C31 (as claimed): a create of s that starts after a create of s succeeded,
\* whose dedup query finds no record (the record expired and was removed),
\* whose store calls do not fail and that no other create's record under its
\* code stands against, is answered 201 with the same code and a later ttl,
\* and the table then holds the fresh record with access_count 0 -- whatever
\* resolves of the code were served.
C31_RecreateAfterExpiry ==
    (/\ AnswersCreate
     /\ last.prev # {}
     /\ last.puts = 1
     /\ last.error # "StoreUnavailable"
     /\ (Has(store, last.shortUrl)
            /\ Attr(store[last.shortUrl], "long_url") \in Urls)
        => last.status = 201)
    => /\ last.status = 201
       /\ \A b \in last.prev :
             last.body.shortUrl = b.shortUrl /\ last.body.ttl > b.ttl
       /\ Has(store, last.shortUrl)
       /\ Attr(store[last.shortUrl], "long_url") = last.longUrl
       /\ Attr(store[last.shortUrl], "ttl") = last.body.ttl
       /\ Attr(store[last.shortUrl], "access_count") = 0

\* what the step of the handler of create q is, whichever endpoint q came
\* through: a failed store call is answered 500 and changes nothing; the
\* dedup query answers 200 with the record of the long URL or else issues the
\* put; the put inserts the record and answers 201, or is rejected and
\* answers 500
CreateStep(q) ==
    IF last'.error = "StoreUnavailable"
    THEN /\ last' = Response(q, 500, InternalError, "StoreUnavailable")
         /\ req' = BagMinus(req, q)
         /\ store' = store
    ELSE IF q.pc = "query"
    THEN /\ store' = store
         /\ IF KeysFor(q.longUrl) # {}
            THEN /\ \E k \in KeysFor(q.longUrl) :
                       last' = Response(q, 200,
                                  [shortUrl |-> store[k].short_url,
                                   longUrl |-> q.longUrl,
                                   ttl |-> store[k].ttl], "none")
                 /\ req' = BagMinus(req, q)
            ELSE /\ last' = NoResponse
                 /\ req' = BagPlus(BagMinus(req, q),
                              [q EXCEPT !.pc = "put", !.createdAt = now,
                                        !.puts = 1])
    ELSE /\ q.pc = "put"
         /\ req' = BagMinus(req, q)
         /\ IF Has(store, q.shortUrl)
            THEN /\ last' = Response(q, 500, InternalError,
                               "ConditionalCheckFailedException")
                 /\ store' = store
            ELSE /\ last' = Response(q, 201,
                               [shortUrl |-> q.shortUrl,
                                longUrl |-> q.longUrl, ttl |-> q.ttl],
                               "none")
                 /\ store' = WithItem(store, q.shortUrl,
                                [short_url |-> q.shortUrl,
                                 long_url |-> q.longUrl, ttl |-> q.ttl,
                                 created_at |-> q.createdAt,
                                 access_count |-> 0])

\* C32: a create that starts with decoded long URL s is, apart from the name
\* of its endpoint, the same request through POST /url/:longUrl as through
\* POST /url (code Generate(s), ttl of now, one dedup query of s), and every
\* step of it is CreateStep, which does not look at the endpoint: the same
\* store calls, the same table afterwards, the same status and body; the
\* dedup query finds the record of s whoever inserted it.
C32_EndpointsEquivalent ==
    [][ /\ \A q \in DOMAIN req' \ DOMAIN req :
              (IsCreate(q) /\ q.pc = "query")
              => q = [NewReq EXCEPT
                         !.kind = q.kind, !.pc = "query",
                         !.longUrl = q.longUrl,
                         !.shortUrl = Generate(q.longUrl),
                         !.ttl = now + TtlSeconds,
                         !.queries = 1,
                         !.prev = {b \in okCreates :
                                      b.longUrl = q.longUrl}]
        /\ \A q \in DOMAIN req :
              (IsCreate(q) /\ Moved(q)) => CreateStep(q)
      ]_vars

\* the case of C32: a create through each endpoint, of the same long URL and
\* started at the same table, has had its dedup query return and has issued
\* the same put
C32_Witness ==
    \E j \in DOMAIN req :
        /\ j.kind = "post_url"
        /\ j.pc = "put"
        /\ [j EXCEPT !.kind = "post_url_param"] \in DOMAIN req

C34_SuccessNotExpired ==
    (IsCreate(last) /\ Success(last)) => last.body.ttl > now

\* C35 (as claimed): whenever the cache and the table both hold an item of
\* code c, the two have the same long_url, so that a resolve served from the
\* cache and one served from the table redirect to the same target.
C35_CacheAgreesWithStore ==
    \A c \in DOMAIN cache \cap DOMAIN store :
        Attr(cache[c], "long_url") = Attr(store[c], "long_url")

====
